---- MODULE Spec2Model ----
(***************************************************************************)
(* Draft order completion (saleor DraftOrderComplete.perform_mutation)     *)
(* with the stock / preorder allocators it calls for every order line.     *)
(*                                                                         *)
(* Each request (a member of Requests) runs perform_mutation as a sequence *)
(* of steps, one per database access, so that concurrent requests          *)
(* interleave between them:                                                *)
(*   GetNode        get_node_or_error + validate_order          (l. 64-70) *)
(*   Save           validate_draft_order .. order.save()        (l. 72-85) *)
(*   SkipLine       a line with neither flag                    (l. 90-91) *)
(*   PlanStocks     allocate_stocks, the planner                (l. 96-106)*)
(*   ApplyStocks    allocate_stocks, the applier, then          (l. 96-113)*)
(*                  allocate_preorders, and the commit                     *)
(*   AllocatePreorders  a line allocate_stocks passes over:     (l. 96-113)*)
(*                  allocate_preorders and the commit                      *)
(*   OrderCreated   order_created event                         (l.118-134)*)
(* allocate_stocks and allocate_preorders live in warehouse.management,    *)
(* which is not among the sources: they are modelled from sections 4.1 to  *)
(* 4.3 of the specification.                                               *)
(***************************************************************************)
EXTENDS Integers, Sequences, FiniteSets, TLC

\* ------------------------------------------------------------- bounds
MaxOnHand == 4        \* quantity on hand of a stock row is in 0..MaxOnHand
MaxInitAllocated == 1 \* allocations of earlier orders present at the start
MaxQuantity == 5      \* largest requested quantity of an order line
MaxLines == 2         \* lines per order
MaxReserved == 1      \* units held by checkout reservations at any time
MaxPreorder == 2      \* preorder capacity (threshold) of a variant in a channel

\* ------------------------------------------------------------- universe
Requests == {"r1", "r2"}
Orders == {"o1", "o2"}
Warehouses == {"A", "B"}
Variants == {"V", "P", "VP", "N"}
NoAddress == <<"address", "none">>
NoName == "none"
NoOrder == "none"
NoUser == "none"
NoEmail == ""

\* User rows: id and email (emails are unique)
Accounts == {[id |-> "u1", email |-> "e1"], [id |-> "u2", email |-> "e2"]}

\* OrderStatus values that matter here
DRAFT == "draft"
UNFULFILLED == "unfulfilled"
CANCELED == "canceled"

\* variant.track_inventory
track_inventory(v) == v \in {"V", "VP"}

\* variant.is_preorder_active()
is_preorder_active(v) == v \in {"P", "VP"}

\* Stock rows that exist: (warehouse, variant)
StockKeys == {<<"A", "V">>, <<"B", "V">>, <<"A", "VP">>}

\* warehouse-selection policy: candidate warehouses of the order's country,
\* in policy order
Candidates == <<"A", "B">>

Min(a, b) == IF a <= b THEN a ELSE b
Max0(a) == IF a >= 0 THEN a ELSE 0

VARIABLES
    order,              \* Order rows: status, customer and shipping fields
    addresses,          \* Address rows that exist
    lines,              \* order.lines: sequence of [variant, quantity]
    shipping_required,  \* order.is_shipping_required()
    quantity,           \* StockRecord quantity on hand
    quantity_allocated, \* StockRecord quantity allocated
    reserved,           \* active, non-expired reservations per target
    preorder_threshold, \* preorder capacity per (variant, channel)
    preorder_allocated, \* preorder quantity allocated per (variant, channel)
    reservation_enabled,\* is_reservation_enabled(site.settings)
    pc,                 \* position of each request in perform_mutation
    target,             \* the order a request completes
    obj,                \* the Order instance a request loaded
    idx,                \* index of the line the loop is at
    plan,               \* allocation plan of the current line
    committed,          \* per request and line: what was allocated
    order_lines_info,   \* per request: indexes of the lines routed to allocators
    result,             \* per request: outcome returned to the caller
    events              \* order_created events emitted

vars == <<order, addresses, lines, shipping_required, quantity, quantity_allocated,
          reserved, preorder_threshold, preorder_allocated,
          reservation_enabled, pc, target, obj, idx, plan, committed,
          order_lines_info, result, events>>

data == <<lines, shipping_required, quantity, preorder_threshold,
          reservation_enabled>>


\* ------------------------------------------------------------- values
\* reservation targets: a stock row, or the preorder pool of a variant in a
\* channel
Channels == {"ch1", "ch2"}
PreorderKeys == {<<"preorder", v, c>> : v \in {"P", "VP"}, c \in Channels}
Targets == StockKeys \cup PreorderKeys

\* the id argument of a request: r1 names either order, r2 names o1 (a second
\* request for o2 is r1's case with the names swapped)
Ids(r) == IF r = "r1" THEN Orders ELSE {"o1"}

\* order.channel
channel_of(o) == IF o = "o1" THEN "ch1" ELSE "ch2"

NoResult == [kind |-> "none", field |-> "none", items |-> <<>>]

Distinct(s) == \A a, b \in DOMAIN s : a # b => s[a].variant # s[b].variant

\* the line lists an order may have: 1..MaxLines lines of distinct variants
LineLists(Q) ==
    {s \in UNION {[1..n -> [variant : Variants, quantity : 1..MaxQuantity]] :
                     n \in 1..MaxLines} :
        Distinct(s) /\ \A a \in DOMAIN s : s[a].quantity \in Q[s[a].variant]}

VariantsOf(s) == {s[a].variant : a \in DOMAIN s}

\* ------------------------------------------------------------- initial states
\* allocations of earlier orders: warehouse B already carries some for V
InitiallyAllocated(k) ==
    IF k = <<"B", "V">> THEN Min(MaxInitAllocated, quantity[k]) ELSE 0

\* Everything a request has not touched yet.
InitRequests(active) ==
    /\ pc = [r \in Requests |-> IF r \in active THEN "start" ELSE "absent"]
    /\ target = [r \in Requests |-> NoOrder]
    /\ obj = [r \in Requests |-> [status |-> "none"]]
    /\ idx = [r \in Requests |-> 1]
    /\ plan = [r \in Requests |-> <<>>]
    /\ committed = [r \in Requests |-> [a \in 1..MaxLines |-> <<>>]]
    /\ order_lines_info = [r \in Requests |-> <<>>]
    /\ result = [r \in Requests |-> NoResult]
    /\ events = <<>>

\* quantities of the lines in the concurrent specification
NarrowQuantities ==
    [v \in Variants |-> IF v = "V" THEN {2, MaxQuantity} ELSE {2}]

\* Two concurrent requests over two orders; o2 is a one-line order of
\* MaxQuantity units of V.
Init ==
    /\ InitRequests(Requests)
    /\ lines \in [Orders -> LineLists(NarrowQuantities)]
    /\ lines["o2"] = <<[variant |-> "V", quantity |-> MaxQuantity]>>
    /\ shipping_required = [o \in Orders |-> o = "o2"]
    /\ \E st \in {DRAFT, CANCELED} :
        order = [o \in Orders |->
                   [status |-> IF o = "o1" THEN DRAFT ELSE st,
                    user |-> NoUser,
                    user_email |-> "e1",
                    shipping_method_name |-> "standard",
                    currency |-> "USD",
                    shipping_price |-> [amount |-> 10, currency |-> "USD"],
                    shipping_address |-> <<"address", o>>,
                    search_document |-> <<>>]]
    /\ addresses = {<<"address", o>> : o \in Orders}
    /\ LET used == VariantsOf(lines["o1"]) \cup VariantsOf(lines["o2"])
       IN /\ quantity \in [StockKeys -> 0..MaxOnHand]
          /\ quantity[<<"A", "V">>] \in {2, 3}
          /\ quantity[<<"B", "V">>] \in {0, MaxOnHand}
          /\ quantity[<<"A", "VP">>] = 2
          /\ preorder_threshold \in [PreorderKeys -> 0..MaxPreorder]
          /\ \A k \in PreorderKeys :
                preorder_threshold[k] \in
                    IF k[2] = "P" /\ k[3] = "ch1" /\ "P" \in used
                    THEN {0, MaxPreorder} ELSE {MaxPreorder}
    /\ quantity_allocated = [k \in StockKeys |-> InitiallyAllocated(k)]
    /\ preorder_allocated = [k \in PreorderKeys |-> 0]
    /\ reserved = [k \in Targets |-> 0]
    /\ reservation_enabled \in BOOLEAN


\* One request completing o1, a line of V followed by at most one line of
\* another kind, over every ledger within the bounds: any quantity on hand
\* of V in both warehouses, earlier allocations in B, a reservation in A or
\* in the preorder pool that may be there whether or not reservations are
\* enabled.
InitWide ==
    /\ InitRequests({"r1"})
    /\ \E q \in 1..MaxQuantity :
       \E t \in {<<>>, <<[variant |-> "N", quantity |-> 2]>>,
                 <<[variant |-> "P", quantity |-> 2]>>} :
          lines = [o \in Orders |->
                     IF o = "o1" THEN <<[variant |-> "V", quantity |-> q]>> \o t
                     ELSE <<[variant |-> "V", quantity |-> MaxQuantity]>>]
    /\ shipping_required = [o \in Orders |-> o = "o2"]
    /\ order = [o \in Orders |->
                  [status |-> DRAFT,
                   user |-> NoUser,
                   user_email |-> "e1",
                   shipping_method_name |-> "standard",
                   currency |-> "USD",
                   shipping_price |-> [amount |-> 10, currency |-> "USD"],
                   shipping_address |-> <<"address", o>>,
                   search_document |-> <<>>]]
    /\ addresses = {<<"address", o>> : o \in Orders}
    /\ quantity \in [StockKeys -> 0..MaxOnHand]
    /\ quantity[<<"A", "VP">>] = 2
    /\ \E n \in 0..MaxInitAllocated :
          /\ n <= quantity[<<"B", "V">>]
          /\ quantity_allocated =
                [k \in StockKeys |-> IF k = <<"B", "V">> THEN n ELSE 0]
    /\ preorder_threshold = [k \in PreorderKeys |-> MaxPreorder]
    /\ preorder_allocated = [k \in PreorderKeys |-> 0]
    /\ \E n \in 0..MaxReserved :
       \E kr \in {<<"A", "V">>, <<"preorder", "P", "ch1">>} :
          /\ n <= IF kr \in StockKeys THEN quantity[kr] ELSE MaxPreorder
          /\ reserved = [k \in Targets |-> IF k = kr THEN n ELSE 0]
    /\ reservation_enabled \in BOOLEAN

\* the emails an order may carry: none, those of the accounts, an unknown one
Emails == {NoEmail, "e1", "e2", "e3"}
Users == {NoUser, "u1", "u2"}
Currencies == {"USD", "EUR"}

\* One request over orders whose customer and shipping fields take every
\* value: with or without user, email, shipping address and shipping
\* method, shipping required or not; o1 has a line of V and a line without
\* flags or a preorder line, and the stock covers every line.
InitOrder ==
    /\ InitRequests({"r1"})
    /\ \E t \in {<<[variant |-> "N", quantity |-> 2]>>,
                 <<[variant |-> "P", quantity |-> 2]>>} :
          lines = [o \in Orders |->
                     IF o = "o1" THEN <<[variant |-> "V", quantity |-> 2]>> \o t
                     ELSE <<[variant |-> "V", quantity |-> 2]>>]
    /\ shipping_required \in [Orders -> BOOLEAN]
    /\ \E u \in Users, e \in Emails, cur \in Currencies,
          n \in {NoName, "standard"}, adr \in BOOLEAN :
          /\ order = [o \in Orders |->
                        [status |-> DRAFT,
                         user |-> IF o = "o1" THEN u ELSE NoUser,
                         user_email |-> IF o = "o1" THEN e ELSE "e1",
                         shipping_method_name |-> n,
                         currency |-> cur,
                         shipping_price |-> [amount |-> 10, currency |-> cur],
                         shipping_address |->
                            IF adr THEN <<"address", o>> ELSE NoAddress,
                         search_document |-> <<>>]]
          /\ addresses = IF adr THEN {<<"address", o>> : o \in Orders} ELSE {}
    /\ quantity = [k \in StockKeys |-> IF k = <<"B", "V">> THEN 4 ELSE 3]
    /\ quantity_allocated = [k \in StockKeys |-> 0]
    /\ preorder_threshold = [k \in PreorderKeys |-> 2]
    /\ preorder_allocated = [k \in PreorderKeys |-> 0]
    /\ reserved = [k \in Targets |-> 0]
    /\ reservation_enabled \in BOOLEAN

\* ------------------------------------------------------------- allocators
\* (warehouse.management, modelled from sections 4.1 - 4.3)

\* 4.1: available quantity of a variant in a warehouse
Available(w, v, check_reservations) ==
    IF <<w, v>> \in StockKeys
    THEN Max0(quantity[<<w, v>>] - quantity_allocated[<<w, v>>]
              - (IF check_reservations THEN reserved[<<w, v>>] ELSE 0))
    ELSE 0

RECURSIVE TotalAvailable(_, _, _)
TotalAvailable(cands, v, check_reservations) ==
    IF cands = <<>> THEN 0
    ELSE Available(Head(cands), v, check_reservations)
         + TotalAvailable(Tail(cands), v, check_reservations)

\* 4.1: consume greedily from the candidates in order
RECURSIVE GreedyPlan(_, _, _, _)
GreedyPlan(cands, v, need, check_reservations) ==
    IF cands = <<>> \/ need = 0 THEN <<>>
    ELSE LET w == Head(cands)
             take == Min(Available(w, v, check_reservations), need)
         IN (IF take > 0 THEN <<[warehouse |-> w, quantity |-> take]>> ELSE <<>>)
            \o GreedyPlan(Tail(cands), v, need - take, check_reservations)

\* 4.1: the shortage record of an infeasible line
Shortage(line, available) ==
    [variant |-> line.variant, requested |-> line.quantity,
     available |-> available]

\* an applier that commits the plan without looking at the ledger again
RecheckSkipped(v, e, check_reservations) == TRUE

\* 4.2: the commit-time re-check of one planned (warehouse, quantity) pair
Recheck(v, e, check_reservations) ==
    quantity_allocated[<<e.warehouse, v>>] + e.quantity
      + (IF check_reservations THEN reserved[<<e.warehouse, v>>] ELSE 0)
    <= quantity[<<e.warehouse, v>>]

\* quantity a plan takes from warehouse w
PlanQuantity(p, w) ==
    IF \E a \in DOMAIN p : p[a].warehouse = w
    THEN p[CHOOSE a \in DOMAIN p : p[a].warehouse = w].quantity
    ELSE 0

\* an applier that never reports a conflict
ConflictIgnored(v, p, check_reservations) == FALSE

\* 4.2: does the re-check of some planned pair fail
Conflict(v, p, check_reservations) ==
    \E a \in DOMAIN p : ~Recheck(v, p[a], check_reservations)

\* 4.2: the applier takes the pairs of the plan in order, re-checks each and
\* increments its row, and stops at the first pair whose re-check fails
RECURSIVE Written(_, _, _)
Written(v, p, check_reservations) ==
    IF p = <<>> \/ ~Recheck(v, Head(p), check_reservations) THEN <<>>
    ELSE <<Head(p)>> \o Written(v, Tail(p), check_reservations)

\* the ledger with the pairs p of variant v added
Applied(v, p) ==
    [k \in StockKeys |->
        quantity_allocated[k] + (IF k[2] = v THEN PlanQuantity(p, k[1]) ELSE 0)]

\* 4.3: available preorder capacity of a variant in a channel
PreorderAvailable(v, c, check_reservations) ==
    LET k == <<"preorder", v, c>>
    IN Max0(preorder_threshold[k] - preorder_allocated[k]
            - (IF check_reservations THEN reserved[k] ELSE 0))

\* every tracked variant routed to physical stock, preorder-active or not
RoutedToStockTracked(v) == track_inventory(v)

\* routing inside the allocators: physical stock, unless the variant is
\* preorder-active
RoutedToStock(v) == track_inventory(v) /\ ~is_preorder_active(v)
RoutedToPreorder(v) == is_preorder_active(v)

\* 4.3: is the preorder pool of channel c too small for the line
PreorderShort(line, c, check_reservations) ==
    /\ RoutedToPreorder(line.variant)
    /\ PreorderAvailable(line.variant, c, check_reservations) < line.quantity

\* 4.3: the preorder counters after the line was taken from the pool of
\* channel c; a line that is not routed to the pool leaves them alone
PreorderWritten(line, c) ==
    IF RoutedToPreorder(line.variant)
    THEN [preorder_allocated EXCEPT ![<<"preorder", line.variant, c>>] =
             @ + line.quantity]
    ELSE preorder_allocated

\* 4.3: the allocation the preorder allocator records for the line
PreorderPart(line) ==
    IF RoutedToPreorder(line.variant)
    THEN <<[warehouse |-> "preorder", quantity |-> line.quantity]>>
    ELSE <<>>

\* ------------------------------------------------------------- perform_mutation
CurrentLine(r) == lines[target[r]][idx[r]]

\* a channel slug that is not the order's
channel_slug_fixed(r) == "ch2"

\* lines 87-88: channel_slug = order.channel.slug
channel_slug(r) == channel_of(target[r])

\* is_reservation_enabled(info.context.site.settings)
is_reservation_enabled == reservation_enabled

\* a call that never asks for reservations to be checked
reservations_ignored == FALSE

\* lines 103-105: check_reservations of allocate_stocks
stocks_check_reservations == is_reservation_enabled

\* lines 110-112: check_reservations of allocate_preorders
preorders_check_reservations == is_reservation_enabled
InLoop(r) == pc[r] = "lines" /\ idx[r] <= Len(lines[target[r]])

\* line data built without the line's quantity
OrderLineInfoUnit(line) == [variant |-> line.variant, quantity |-> 1]

\* lines 92-94: the line data handed to the allocators
OrderLineInfo(line) == [variant |-> line.variant, quantity |-> line.quantity]

\* every line handed to the allocators
EligibleAlways(v) == TRUE

\* line 91: the lines that are handed to the allocators
Eligible(v) == track_inventory(v) \/ is_preorder_active(v)

\* lines 51-59
InvalidState ==
    [kind |-> "InvalidState", field |-> "id", items |-> <<>>]

\* validate_draft_order raising
DraftInvalid ==
    [kind |-> "DraftInvalid", field |-> "draft", items |-> <<>>]

\* the ValidationError raised without the prepared errors
InsufficientStockBare(items) ==
    [kind |-> "InsufficientStock", field |-> "lines", items |-> <<>>]

\* lines 114-116: prepare_insufficient_stock_order_validation_errors and
\* the ValidationError on "lines"
InsufficientStock(items) ==
    [kind |-> "InsufficientStock", field |-> "lines",
     items |-> [a \in DOMAIN items |->
                  [code |-> "insufficient_stock",
                   variant |-> items[a].variant,
                   requested |-> items[a].requested,
                   available |-> items[a].available]]]

Success == [kind |-> "Success", field |-> "order", items |-> <<>>]

\* a validate_order that lets every order through
is_draft_unchecked(ord) == TRUE

\* lines 51-52: order.is_draft()
is_draft(ord) == ord.status = DRAFT

\* lines 64-70: load the order, reject it unless it is a draft
GetNode(r) ==
    /\ pc[r] = "start"
    /\ \E o \in Ids(r) :
        /\ target' = [target EXCEPT ![r] = o]
        /\ obj' = [obj EXCEPT ![r] = order[o]]
        /\ IF ~is_draft(order[o])
           THEN /\ pc' = [pc EXCEPT ![r] = "done"]
                /\ result' = [result EXCEPT ![r] = InvalidState]
           ELSE /\ pc' = [pc EXCEPT ![r] = "loaded"]
                /\ UNCHANGED result
    /\ UNCHANGED <<order, addresses, data, quantity_allocated, reserved,
                   preorder_allocated, idx, plan, committed, order_lines_info,
                   events>>

\* the customer fields left as they were loaded
user_fields_kept(ord) == ord

\* lines 41-48
update_user_fields(ord) ==
    IF ord.user # NoUser
    THEN [ord EXCEPT !.user_email =
            (CHOOSE a \in Accounts : a.id = ord.user).email]
    ELSE IF ord.user_email # NoEmail
    THEN [ord EXCEPT !.user =
            IF \E a \in Accounts : a.email = ord.user_email
            THEN (CHOOSE a \in Accounts : a.email = ord.user_email).id
            ELSE NoUser]
    ELSE ord

\* the status left as it was loaded
status_kept(ord) == ord

\* line 75
set_unfulfilled(ord) == [ord EXCEPT !.status = UNFULFILLED]

\* line 79: zero_taxed_money(order.currency)
zero_taxed_money(currency) == [amount |-> 0, currency |-> currency]

\* shipping left as it was loaded
shipping_kept(o, ord) == ord

\* lines 77-82
normalize_shipping(o, ord) ==
    IF ~shipping_required[o]
    THEN [ord EXCEPT !.shipping_method_name = NoName,
                     !.shipping_price = zero_taxed_money(ord.currency),
                     !.shipping_address = NoAddress]
    ELSE ord

\* line 84: prepare_order_search_document_value
search_document_value(ord) == <<ord.user_email, ord.user>>

\* the order saved before validate_draft_order has looked at it
SaveUnvalidated(r) ==
    /\ pc[r] = "loaded"
    /\ \E valid \in BOOLEAN :
        LET o == target[r]
            a == set_unfulfilled(update_user_fields(obj[r]))
            b == normalize_shipping(o, a)
            c == [b EXCEPT !.search_document = search_document_value(b)]
        IN /\ obj' = [obj EXCEPT ![r] = c]
           /\ order' = [order EXCEPT ![o] = c]
           /\ addresses' = IF shipping_required[o] THEN addresses
                           ELSE addresses \ {obj[r].shipping_address}
           /\ IF ~valid
              THEN /\ pc' = [pc EXCEPT ![r] = "done"]
                   /\ result' = [result EXCEPT ![r] = DraftInvalid]
              ELSE /\ pc' = [pc EXCEPT ![r] = "lines"]
                   /\ UNCHANGED result
    /\ UNCHANGED <<data, quantity_allocated, reserved, preorder_allocated,
                   target, idx, plan, committed, order_lines_info, events>>

\* lines 72-85: validate the draft, set the fields, save the order
Save(r) ==
    /\ pc[r] = "loaded"
    /\ \E valid \in BOOLEAN :
        IF ~valid
        THEN /\ pc' = [pc EXCEPT ![r] = "done"]
             /\ result' = [result EXCEPT ![r] = DraftInvalid]
             /\ UNCHANGED <<order, addresses, obj>>
        ELSE LET o == target[r]
                 a == set_unfulfilled(update_user_fields(obj[r]))
                 b == normalize_shipping(o, a)
                 c == [b EXCEPT !.search_document = search_document_value(b)]
             IN /\ obj' = [obj EXCEPT ![r] = c]
                /\ order' = [order EXCEPT ![o] = c]
                /\ addresses' = IF shipping_required[o] THEN addresses
                                ELSE addresses \ {obj[r].shipping_address}
                /\ pc' = [pc EXCEPT ![r] = "lines"]
                /\ UNCHANGED result
    /\ UNCHANGED <<data, quantity_allocated, reserved, preorder_allocated,
                   target, idx, plan, committed, order_lines_info, events>>

\* lines 90-91: a line with neither flag is passed over
SkipLine(r) ==
    /\ InLoop(r)
    /\ ~Eligible(CurrentLine(r).variant)
    /\ idx' = [idx EXCEPT ![r] = @ + 1]
    /\ UNCHANGED <<order, addresses, data, quantity_allocated, reserved,
                   preorder_allocated, pc, target, obj, plan, committed,
                   order_lines_info, result, events>>

\* InsufficientStock swallowed and the line tried again
RetryLine(r, items) ==
    /\ pc' = [pc EXCEPT ![r] = "lines"]
    /\ UNCHANGED <<order, addresses, result>>

\* the failure undoing the save of line 85 (one transaction around it all)
RaiseAndRollBack(r, items) ==
    /\ pc' = [pc EXCEPT ![r] = "done"]
    /\ result' = [result EXCEPT ![r] = InsufficientStock(items)]
    /\ order' = [order EXCEPT ![target[r]].status = DRAFT]
    /\ UNCHANGED addresses

\* lines 114-116: InsufficientStock caught, ValidationError raised; the order
\* saved at line 85 stays as it is
RaiseInsufficientStock(r, items) ==
    /\ pc' = [pc EXCEPT ![r] = "done"]
    /\ result' = [result EXCEPT ![r] = InsufficientStock(items)]
    /\ UNCHANGED <<order, addresses>>

\* the allocators called outside any transaction: their writes stay
no_transaction(raised, before, written) == written

\* line 97: what the atomic block leaves in the ledger: the writes made inside
\* it, or nothing when InsufficientStock left the block
traced_atomic_transaction(raised, before, written) ==
    IF raised THEN before ELSE written

\* lines 92-106: allocate_stocks, planning the line
PlanStocks(r) ==
    /\ InLoop(r)
    /\ Eligible(CurrentLine(r).variant)
    /\ RoutedToStock(CurrentLine(r).variant)
    /\ order_lines_info' = [order_lines_info EXCEPT ![r] = Append(@, idx[r])]
    /\ LET line == OrderLineInfo(CurrentLine(r))
           total == TotalAvailable(Candidates, line.variant,
                                   stocks_check_reservations)
       IN IF total < line.quantity
          THEN /\ RaiseInsufficientStock(r, <<Shortage(line, total)>>)
               /\ UNCHANGED plan
          ELSE /\ plan' = [plan EXCEPT ![r] =
                     GreedyPlan(Candidates, line.variant, line.quantity,
                                stocks_check_reservations)]
               /\ pc' = [pc EXCEPT ![r] = "planned"]
               /\ UNCHANGED <<order, addresses, result>>
    /\ UNCHANGED <<data, quantity_allocated, reserved,
                   preorder_allocated, target, obj, idx, committed, events>>

\* lines 96-113: allocate_stocks, applying the plan; then allocate_preorders
\* with the same line data; the transaction commits, or rolls back when
\* either of them raised InsufficientStock
ApplyStocks(r) ==
    /\ pc[r] = "planned"
    /\ LET line == OrderLineInfo(CurrentLine(r))
           c == channel_slug(r)
           conflict == Conflict(line.variant, plan[r], stocks_check_reservations)
           written == Written(line.variant, plan[r], stocks_check_reservations)
           short == ~conflict
                    /\ PreorderShort(line, c, preorders_check_reservations)
           raised == conflict \/ short
       IN /\ quantity_allocated' =
                traced_atomic_transaction(raised, quantity_allocated,
                                          Applied(line.variant, written))
          /\ preorder_allocated' =
                traced_atomic_transaction(raised, preorder_allocated,
                    IF raised THEN preorder_allocated
                    ELSE PreorderWritten(line, c))
          /\ IF raised
             THEN /\ RaiseInsufficientStock(r,
                        <<Shortage(line,
                            IF conflict
                            THEN TotalAvailable(Candidates, line.variant,
                                                stocks_check_reservations)
                            ELSE PreorderAvailable(line.variant, c,
                                     preorders_check_reservations))>>)
                  /\ UNCHANGED <<committed, idx>>
             ELSE /\ committed' = [committed EXCEPT ![r][idx[r]] =
                                      plan[r] \o PreorderPart(line)]
                  /\ idx' = [idx EXCEPT ![r] = @ + 1]
                  /\ pc' = [pc EXCEPT ![r] = "lines"]
                  /\ UNCHANGED <<order, addresses, result>>
    /\ plan' = [plan EXCEPT ![r] = <<>>]
    /\ UNCHANGED <<data, reserved, target, obj, order_lines_info, events>>

\* lines 92-113: allocate_stocks has nothing to do for a line that is not
\* routed to physical stock; allocate_preorders takes the line from the
\* preorder pool of the channel when it is routed there
AllocatePreorders(r) ==
    /\ InLoop(r)
    /\ Eligible(CurrentLine(r).variant)
    /\ ~RoutedToStock(CurrentLine(r).variant)
    /\ order_lines_info' = [order_lines_info EXCEPT ![r] = Append(@, idx[r])]
    /\ LET line == OrderLineInfo(CurrentLine(r))
           c == channel_slug(r)
       IN IF PreorderShort(line, c, preorders_check_reservations)
          THEN /\ RaiseInsufficientStock(r,
                     <<Shortage(line,
                                PreorderAvailable(line.variant, c,
                                    preorders_check_reservations))>>)
               /\ UNCHANGED <<preorder_allocated, committed, idx>>
          ELSE /\ preorder_allocated' = PreorderWritten(line, c)
               /\ committed' = [committed EXCEPT ![r][idx[r]] =
                                   PreorderPart(line)]
               /\ idx' = [idx EXCEPT ![r] = @ + 1]
               /\ UNCHANGED <<order, addresses, pc, result>>
    /\ UNCHANGED <<data, quantity_allocated, reserved,
                   target, obj, plan, events>>

\* order_created called inside the loop
OrderCreatedInLoop(r) ==
    /\ pc[r] = "lines"
    /\ events' = Append(events,
                        [request |-> r, order |-> target[r],
                         channel |-> channel_of(target[r]),
                         lines_data |-> order_lines_info[r]])
    /\ pc' = [pc EXCEPT ![r] = "done"]
    /\ result' = [result EXCEPT ![r] = [kind |-> "Success", field |-> "order",
                                        items |-> <<>>]]
    /\ UNCHANGED <<order, addresses, data, quantity_allocated, reserved,
                   preorder_allocated, target, obj, idx, plan, committed,
                   order_lines_info>>

\* lines 118-134: the loop is over, order_created is emitted
OrderCreated(r) ==
    /\ pc[r] = "lines"
    /\ idx[r] > Len(lines[target[r]])
    /\ events' = Append(events,
                        [request |-> r, order |-> target[r],
                         channel |-> channel_of(target[r]),
                         lines_data |-> order_lines_info[r]])
    /\ pc' = [pc EXCEPT ![r] = "done"]
    /\ result' = [result EXCEPT ![r] = Success]
    /\ UNCHANGED <<order, addresses, data, quantity_allocated, reserved,
                   preorder_allocated, target, obj, idx, plan, committed,
                   order_lines_info>>

\* ------------------------------------------------------------- checkouts
TotalReserved(S) ==
    LET RECURSIVE Sum(_)
        Sum(T) == IF T = {} THEN 0
                  ELSE LET k == CHOOSE k \in T : TRUE
                       IN reserved[k] + Sum(T \ {k})
    IN Sum(S)

\* what a checkout may still reserve of a target
Reservable(k) ==
    IF k \in StockKeys
    THEN quantity[k] - quantity_allocated[k] - reserved[k]
    ELSE preorder_threshold[k] - preorder_allocated[k] - reserved[k]

\* variants some order asks for
Wanted == UNION {VariantsOf(lines[o]) : o \in Orders}

\* the targets checkouts compete for
Contended == {<<"A", "V">>, <<"B", "V">>, <<"preorder", "P", "ch1">>}

\* a checkout reserves one unit
Reserve(k) ==
    /\ reservation_enabled
    /\ k \in Contended
    /\ k[2] \in Wanted
    /\ TotalReserved(Targets) < MaxReserved
    /\ Reservable(k) > 0
    /\ reserved' = [reserved EXCEPT ![k] = @ + 1]
    /\ UNCHANGED <<order, addresses, data, quantity_allocated,
                   preorder_allocated, pc, target, obj, idx, plan, committed,
                   order_lines_info, result, events>>

\* a reservation expires
Expire(k) ==
    /\ reserved[k] > 0
    /\ reserved' = [reserved EXCEPT ![k] = 0]
    /\ UNCHANGED <<order, addresses, data, quantity_allocated,
                   preorder_allocated, pc, target, obj, idx, plan, committed,
                   order_lines_info, result, events>>

Next ==
    \/ \E r \in Requests : GetNode(r)
    \/ \E r \in Requests : Save(r)
    \/ \E r \in Requests : SkipLine(r)
    \/ \E r \in Requests : PlanStocks(r)
    \/ \E r \in Requests : ApplyStocks(r)
    \/ \E r \in Requests : AllocatePreorders(r)
    \/ \E r \in Requests : OrderCreated(r)
    \/ \E k \in Targets : Reserve(k)
    \/ \E k \in Targets : Expire(k)

Spec == Init /\ [][Next]_vars

SpecWide == InitWide /\ [][Next]_vars

SpecOrder == InitOrder /\ [][Next]_vars

\* ------------------------------------------------------------- properties
RECURSIVE SumPlan(_)
SumPlan(p) == IF p = <<>> THEN 0 ELSE Head(p).quantity + SumPlan(Tail(p))

RECURSIVE SumOver(_, _)
SumOver(f, S) ==
    IF S = {} THEN 0
    ELSE LET k == CHOOSE k \in S : TRUE IN f[k] + SumOver(f, S \ {k})

\* the request has got past order.save()
Saved(r) == pc[r] \in {"lines", "planned"}
            \/ result[r].kind \in {"InsufficientStock", "Success"}

\* the step makes request r fail with InsufficientStock
FailsNow(r) == result[r].kind = "none" /\ result'[r].kind = "InsufficientStock"

\* line a of order o cannot be covered by what is available now
LineShort(o, a) ==
    LET line == lines[o][a]
    IN /\ Eligible(line.variant)
       /\ IF RoutedToStock(line.variant)
          THEN TotalAvailable(Candidates, line.variant, reservation_enabled)
                 < line.quantity
          ELSE PreorderAvailable(line.variant, channel_of(o),
                                 reservation_enabled) < line.quantity

\* C1: no oversell: every stock row has quantity allocated <= quantity on
\* hand, in every reachable state of the concurrent completions.
NoOversell ==
    \A k \in StockKeys : quantity_allocated[k] <= quantity[k]

\* two completions of different orders met at a row that is now fully taken:
\* one was allocated, the other was refused
NoOversellWitness ==
    /\ target["r1"] = "o2" /\ target["r2"] = "o1"
    /\ quantity[<<"A", "V">>] > 0
    /\ quantity_allocated[<<"A", "V">>] = quantity[<<"A", "V">>]
    /\ \E r, q \in Requests :
        /\ committed[r][1] # <<>>
        /\ result[q].kind = "InsufficientStock"
        /\ CurrentLine(q).variant = "V"

\* C2: when several lines of an order lack stock, the InsufficientStock
\* failure lists every one of them (stated as: at the step that raises the
\* failure, every line not yet allocated that cannot be covered is among the
\* reported items).
FailureListsEveryShortLine ==
    [][\A r \in Requests :
          FailsNow(r) =>
             \A a \in DOMAIN lines[target[r]] :
                (a >= idx[r] /\ LineShort(target[r], a)) =>
                   \E b \in DOMAIN result'[r].items :
                      result'[r].items[b].variant = lines[target[r]][a].variant]_vars

\* C3: completing an order that is not a draft fails with the invalid-state
\* error and changes nothing: no order field, address, stock row,
\* reservation or preorder counter, and no event; the request ends there.
NonDraftRejected ==
    [][\A r \in Requests :
          (pc[r] = "start" /\ pc'[r] # "start"
           /\ order[target'[r]].status # DRAFT) =>
             /\ result'[r] = InvalidState
             /\ pc'[r] = "done"
             /\ UNCHANGED <<order, addresses, quantity, quantity_allocated,
                            reserved, preorder_allocated, events, committed>>]_vars

NonDraftRejectedWitness ==
    \E r \in Requests :
        /\ result[r] = InvalidState
        /\ order[target[r]].status = CANCELED

\* C4: idempotence: once a completion of an order has got past its save, an
\* attempt on that order that starts afterwards fails with InvalidState,
\* leaves the ledger as it is and never allocates anything.
CompletionIdempotent ==
    /\ [][\A r \in Requests :
            (pc[r] = "start" /\ pc'[r] # "start"
             /\ \E q \in Requests \ {r} : Saved(q) /\ target[q] = target'[r]) =>
               /\ result'[r] = InvalidState
               /\ pc'[r] = "done"
               /\ UNCHANGED <<quantity_allocated, preorder_allocated>>]_vars
    /\ [](\A r \in Requests :
            result[r] = InvalidState =>
               /\ pc[r] = "done"
               /\ \A a \in 1..MaxLines : committed[r][a] = <<>>)

\* a first attempt allocated the order, a later one was rejected
CompletionIdempotentWitness ==
    \E r, q \in Requests :
        /\ r # q /\ target[r] = target[q]
        /\ result[q].kind = "Success" /\ committed[q][1] # <<>>
        /\ order[target[q]].status = UNFULFILLED
        /\ result[r] = InvalidState

\* C5: a line is allocated in full or not at all: a step adds to the ledger
\* either nothing or exactly the requested quantity of the line the stepping
\* request is at, and a step that ends in InsufficientStock adds nothing.
LineAllOrNothing ==
    [][LET d == SumOver(quantity_allocated', StockKeys)
                - SumOver(quantity_allocated, StockKeys)
                + SumOver(preorder_allocated', PreorderKeys)
                - SumOver(preorder_allocated, PreorderKeys)
       IN /\ \A k \in StockKeys : quantity_allocated'[k] >= quantity_allocated[k]
          /\ \A k \in PreorderKeys : preorder_allocated'[k] >= preorder_allocated[k]
          /\ \/ d = 0
             \/ \E r \in Requests :
                   /\ Saved(r) /\ idx'[r] = idx[r] + 1
                   /\ d = lines[target[r]][idx[r]].quantity
                   /\ SumPlan(committed'[r][idx[r]]) = d
          /\ \A r \in Requests : FailsNow(r) => d = 0]_vars

\* a line was refused although part of it could have been covered, and the
\* ledger is as it was at the start
LineAllOrNothingWitness ==
    \E r \in Requests :
        /\ result[r].kind = "InsufficientStock"
        /\ result[r].items[1].available > 0
        /\ result[r].items[1].variant = "V"
        /\ \A k \in StockKeys : quantity_allocated[k] = InitiallyAllocated(k)


\* quantity of variant v available over all warehouses, counted row by row
AvailableNow(v) ==
    SumOver([k \in StockKeys |->
               IF k[2] = v
               THEN Max0(quantity[k] - quantity_allocated[k]
                         - (IF reservation_enabled THEN reserved[k] ELSE 0))
               ELSE 0], StockKeys)

\* quantity of variant v available at the start
AvailableAtStart(v) ==
    SumOver([k \in StockKeys |->
               IF k[2] = v THEN quantity[k] - InitiallyAllocated(k) ELSE 0],
            StockKeys)

\* r1 and r2 completed two different one-line orders of V and both got as
\* far as the allocation
Contending ==
    /\ pc["r1"] = "done" /\ pc["r2"] = "done"
    /\ target["r1"] = "o2" /\ target["r2"] = "o1"
    /\ lines["o1"] = <<[variant |-> "V", quantity |-> lines["o1"][1].quantity]>>
    /\ \A r \in Requests : result[r].kind \in {"Success", "InsufficientStock"}

\* exactly one of the two was allocated; the other got a shortage showing
\* what the first one left
ExactlyOneAllocated ==
    \E r, q \in Requests :
        /\ r # q
        /\ result[r].kind = "Success"
        /\ SumPlan(committed[r][1]) = lines[target[r]][1].quantity
        /\ result[q].kind = "InsufficientStock"
        /\ committed[q][1] = <<>>
        /\ result[q].items[1].available
             = AvailableAtStart("V") - lines[target[r]][1].quantity

\* C6 as stated: two concurrent completions of different orders ask, of the
\* same stock row, quantities whose sum exceeds the quantity on hand: exactly
\* one is allocated in full and the other sees a shortage computed from the
\* updated availability.
ContendedExactlyOne ==
    (/\ Contending
     /\ quantity[<<"B", "V">>] = 0
     /\ lines["o1"][1].quantity + lines["o2"][1].quantity
          > quantity[<<"A", "V">>])
    => ExactlyOneAllocated

\* C6 amended: if the requested quantities together exceed what was available
\* the two never both succeed; if moreover each alone fits what was available
\* and no checkout reservation interferes (reservations off), exactly one is
\* allocated in full and the other's shortage shows the availability left.
ContendedAtMostOne ==
    (/\ Contending
     /\ lines["o1"][1].quantity + lines["o2"][1].quantity > AvailableAtStart("V"))
    => /\ ~(\A r \in Requests : result[r].kind = "Success")
       /\ (/\ ~reservation_enabled
           /\ \A o \in Orders : lines[o][1].quantity <= AvailableAtStart("V"))
          => ExactlyOneAllocated

ContendedWitness ==
    /\ Contending
    /\ ~reservation_enabled
    /\ quantity[<<"A", "V">>] = 3 /\ quantity[<<"B", "V">>] = 4
    /\ lines["o1"][1].quantity = 2 /\ lines["o2"][1].quantity = 5
    /\ ExactlyOneAllocated
    /\ \E q \in Requests :
          result[q].items = <<[code |-> "insufficient_stock", variant |-> "V",
                               requested |-> 2, available |-> 1]>>

\* position of a warehouse in the policy order
Pos(w) == CHOOSE a \in DOMAIN Candidates : Candidates[a] = w

\* C7: a line routed to physical stock whose quantity is within the quantity
\* available over the candidate warehouses gets a plan: pairs in policy
\* order, each within what its warehouse has available, every warehouse
\* before a used one taken in full, summing to the requested quantity; and
\* applying a plan adds exactly its pairs to the ledger.
PlanIsGreedy ==
    [][\A r \in Requests :
          /\ (/\ InLoop(r)
              /\ RoutedToStock(CurrentLine(r).variant)
              /\ order_lines_info'[r] # order_lines_info[r]
              /\ AvailableNow(CurrentLine(r).variant) >= CurrentLine(r).quantity)
             => LET v == CurrentLine(r).variant
                    p == plan'[r]
                IN /\ pc'[r] = "planned"
                   /\ SumPlan(p) = CurrentLine(r).quantity
                   /\ \A a \in DOMAIN p :
                        /\ p[a].quantity > 0
                        /\ p[a].quantity <= Available(p[a].warehouse, v,
                                                      reservation_enabled)
                        /\ \A b \in DOMAIN p :
                              a < b => Pos(p[a].warehouse) < Pos(p[b].warehouse)
                        /\ \A c \in DOMAIN Candidates :
                              c < Pos(p[a].warehouse) =>
                                 PlanQuantity(p, Candidates[c])
                                   = Available(Candidates[c], v,
                                               reservation_enabled)
          /\ (pc[r] = "planned" /\ pc'[r] = "lines")
             => \A k \in StockKeys :
                   quantity_allocated'[k] - quantity_allocated[k]
                     = IF k[2] = CurrentLine(r).variant
                       THEN PlanQuantity(plan[r], k[1]) ELSE 0]_vars

\* the example: 5 of V asked, A has 3 of 3 free, B has 3 of 4 free; the plan
\* {A:3, B:2} was applied, A.allocated = 3, B.allocated = 3
PlanIsGreedyWitness ==
    \E r \in Requests :
        /\ target[r] # NoOrder
        /\ lines[target[r]][1] = [variant |-> "V", quantity |-> 5]
        /\ quantity[<<"A", "V">>] = 3 /\ quantity[<<"B", "V">>] = 4
        /\ committed[r][1] = <<[warehouse |-> "A", quantity |-> 3],
                               [warehouse |-> "B", quantity |-> 2]>>
        /\ quantity_allocated[<<"A", "V">>] = 3
        /\ quantity_allocated[<<"B", "V">>] = 3

\* C8: the failure for an insufficient line is an InsufficientStock error on
\* "lines" with one item: the variant of the line, its requested quantity and
\* the total quantity available over all candidate warehouses (the preorder
\* pool for a preorder line) when it was refused.
ShortageReport ==
    [][\A r \in Requests :
          FailsNow(r) =>
             LET line == lines[target[r]][idx[r]]
             IN /\ result'[r].field = "lines"
                /\ Len(result'[r].items) = 1
                /\ result'[r].items[1].code = "insufficient_stock"
                /\ result'[r].items[1].variant = line.variant
                /\ result'[r].items[1].requested = line.quantity
                /\ result'[r].items[1].available
                     = IF RoutedToStock(line.variant)
                       THEN AvailableNow(line.variant)
                       ELSE PreorderAvailable(line.variant,
                                              channel_of(target[r]),
                                              reservation_enabled)]_vars

\* the example: 5 asked, 2 available
ShortageReportWitness ==
    \E r \in Requests :
        /\ result[r].kind = "InsufficientStock"
        /\ result[r].field = "lines"
        /\ result[r].items = <<[code |-> "insufficient_stock", variant |-> "V",
                                requested |-> 5, available |-> 2]>>
        /\ quantity[<<"A", "V">>] = 2 /\ quantity[<<"B", "V">>] = 0

EventsOf(r) == {a \in DOMAIN events : events[a].request = r}

\* C9: the completion event is emitted exactly once by a completion that
\* succeeds and never by one that fails or is still running, and when it is
\* emitted every eligible line of the order has been allocated in full.
EventOnlyOnSuccess ==
    /\ \A r \in Requests :
          Cardinality(EventsOf(r)) = IF result[r].kind = "Success" THEN 1 ELSE 0
    /\ \A e \in DOMAIN events :
          \A a \in DOMAIN lines[events[e].order] :
             Eligible(lines[events[e].order][a].variant) =>
                SumPlan(committed[events[e].request][a])
                  = lines[events[e].order][a].quantity

\* one completion of a two-line order succeeded and emitted its event, the
\* other failed with InsufficientStock and emitted none
EventOnlyOnSuccessWitness ==
    \E r, q \in Requests :
        /\ result[r].kind = "Success" /\ Len(lines[target[r]]) = 2
        /\ committed[r][1] # <<>> /\ committed[r][2] # <<>>
        /\ result[q].kind = "InsufficientStock"
        /\ Len(events) = 1 /\ events[1].request = r

\* what the requests have committed to stock row k
CommittedTo(k) ==
    SumOver([x \in Requests \X (1..MaxLines) |->
               IF /\ target[x[1]] # NoOrder
                  /\ x[2] \in DOMAIN lines[target[x[1]]]
                  /\ lines[target[x[1]]][x[2]].variant = k[2]
               THEN PlanQuantity(committed[x[1]][x[2]], k[1]) ELSE 0],
            Requests \X (1..MaxLines))

\* C10: after a completion failed with InsufficientStock the order is still
\* saved as Unfulfilled with its shipping normalized, the lines before the
\* failing one stay allocated in full (and stay in the ledger), and the
\* failing line and the lines after it have no allocation.
FailureKeepsSavedOrder ==
    /\ \A r \in Requests :
          result[r].kind = "InsufficientStock" =>
             LET o == target[r]
             IN /\ order[o].status = UNFULFILLED
                /\ ~shipping_required[o] =>
                      /\ order[o].shipping_method_name = NoName
                      /\ order[o].shipping_price.amount = 0
                      /\ order[o].shipping_address = NoAddress
                      /\ <<"address", o>> \notin addresses
                /\ \A a \in DOMAIN lines[o] :
                      /\ (a < idx[r] /\ Eligible(lines[o][a].variant)) =>
                            SumPlan(committed[r][a]) = lines[o][a].quantity
                      /\ a >= idx[r] => committed[r][a] = <<>>
    /\ \A k \in StockKeys :
          quantity_allocated[k] = InitiallyAllocated(k) + CommittedTo(k)

\* the second line of an order that needs no shipping failed; the first line
\* stays allocated and the order stays Unfulfilled
FailureKeepsSavedOrderWitness ==
    \E r \in Requests :
        /\ result[r].kind = "InsufficientStock"
        /\ target[r] = "o1" /\ idx[r] = 2
        /\ lines["o1"][1].variant = "V"
        /\ committed[r][1] # <<>>
        /\ quantity_allocated[<<"A", "V">>] > 0
        /\ order["o1"].status = UNFULFILLED
        /\ order["o1"].shipping_address = NoAddress

\* entries of a line's allocation that name a warehouse, and those that name
\* the preorder pool
StockPart(p) == {a \in DOMAIN p : p[a].warehouse # "preorder"}
PoolPart(p) == {a \in DOMAIN p : p[a].warehouse = "preorder"}

\* C11: within one completion no line is allocated through both paths: the
\* allocation of a line names warehouses only or the preorder pool only; a
\* preorder-active variant, one that also tracks inventory included, goes to
\* the pool and its stock rows are never allocated; any other tracked
\* variant goes to the warehouses.
OnePathPerLine ==
    /\ \A r \in Requests : \A a \in 1..MaxLines :
          /\ ~(StockPart(committed[r][a]) # {} /\ PoolPart(committed[r][a]) # {})
          /\ committed[r][a] # <<>> =>
                IF is_preorder_active(lines[target[r]][a].variant)
                THEN StockPart(committed[r][a]) = {}
                ELSE PoolPart(committed[r][a]) = {}
    /\ \A k \in StockKeys : is_preorder_active(k[2]) => quantity_allocated[k] = 0

\* a line of the variant with both flags was allocated from the pool of the
\* order's channel, and its stock row in A, which could have covered it, is
\* untouched
OnePathPerLineWitness ==
    \E r \in Requests : \E a \in 1..MaxLines :
        /\ target[r] = "o1"
        /\ a \in DOMAIN lines["o1"]
        /\ lines["o1"][a].variant = "VP"
        /\ committed[r][a] = <<[warehouse |-> "preorder",
                                quantity |-> lines["o1"][a].quantity]>>
        /\ preorder_allocated[<<"preorder", "VP", "ch1">>]
             >= lines["o1"][a].quantity
        /\ quantity[<<"A", "VP">>] >= lines["o1"][a].quantity
        /\ quantity_allocated[<<"A", "VP">>] = 0

\* the variant has neither flag
Flagless(v) == ~track_inventory(v) /\ ~is_preorder_active(v)

\* indexes of the lines of order o whose variant has a flag, in line order
RoutedLines(o) ==
    SelectSeq([a \in DOMAIN lines[o] |-> a],
              LAMBDA a : ~Flagless(lines[o][a].variant))

\* C12: a line whose variant has neither flag is skipped: the step of the
\* request at such a line only moves to the next line (no stock row,
\* preorder counter or reservation changes, no failure, nothing recorded);
\* no shortage ever names such a variant, such a line never has an
\* allocation, and the lines carried by the completion event are exactly
\* the lines with a flag, in order.
FlaglessLineSkipped ==
    /\ [][\A r \in Requests :
            (/\ InLoop(r)
             /\ Flagless(CurrentLine(r).variant)
             /\ <<pc[r], idx[r], result[r], order_lines_info[r], committed[r]>>'
                  # <<pc[r], idx[r], result[r], order_lines_info[r],
                       committed[r]>>)
            => /\ idx'[r] = idx[r] + 1
               /\ pc'[r] = pc[r]
               /\ result'[r] = result[r]
               /\ order_lines_info'[r] = order_lines_info[r]
               /\ committed'[r] = committed[r]
               /\ UNCHANGED <<quantity, quantity_allocated, preorder_threshold,
                              preorder_allocated, reserved, events>>]_vars
    /\ [](\A r \in Requests :
            /\ \A b \in DOMAIN result[r].items :
                  ~Flagless(result[r].items[b].variant)
            /\ target[r] # NoOrder =>
                  \A a \in DOMAIN lines[target[r]] :
                     Flagless(lines[target[r]][a].variant) =>
                        committed[r][a] = <<>>)
    /\ [](\A e \in DOMAIN events :
            events[e].lines_data = RoutedLines(events[e].order))

\* an order of a V line and a flagless line was completed: the event carries
\* the V line only
FlaglessLineSkippedWitness ==
    \E e \in DOMAIN events :
        /\ Len(lines[events[e].order]) = 2
        /\ lines[events[e].order][1].variant = "V"
        /\ Flagless(lines[events[e].order][2].variant)
        /\ events[e].lines_data = <<1>>
        /\ committed[events[e].request][1] # <<>>
        /\ committed[events[e].request][2] = <<>>


\* what the reservations take from target k under the site setting
ReservedNow(k) == IF reservation_enabled THEN reserved[k] ELSE 0

\* the step is one of request r
StepOf(r) ==
    <<pc[r], idx[r], result[r], order_lines_info[r]>>'
      # <<pc[r], idx[r], result[r], order_lines_info[r]>>

\* C13: with reservations enabled the quantity available to a line in a
\* warehouse is on hand - allocated - reserved, and with reservations
\* disabled it is on hand - allocated whatever is reserved. A stock line is
\* refused when planned exactly if it asks for more than the sum of these
\* over the warehouses, no planned pair exceeds that of its warehouse, and
\* the plan is refused when applied exactly if some pair no longer fits its
\* row; a preorder line is refused exactly if it asks for more than capacity
\* - allocated - reserved (reserved counted under the same setting).
ReservationsReduceAvailability ==
    [][\A r \in Requests :
          /\ (/\ InLoop(r) /\ StepOf(r)
              /\ track_inventory(CurrentLine(r).variant)
              /\ ~is_preorder_active(CurrentLine(r).variant))
             => LET v == CurrentLine(r).variant
                    free == [k \in StockKeys |->
                               IF k[2] = v
                               THEN Max0(quantity[k] - quantity_allocated[k]
                                         - ReservedNow(k))
                               ELSE 0]
                IN /\ FailsNow(r) <=>
                        CurrentLine(r).quantity > SumOver(free, StockKeys)
                   /\ \A a \in DOMAIN plan'[r] :
                        plan'[r][a].quantity <= free[<<plan'[r][a].warehouse, v>>]
          /\ (pc[r] = "planned" /\ StepOf(r))
             => (FailsNow(r) <=>
                   \E a \in DOMAIN plan[r] :
                      LET k == <<plan[r][a].warehouse, CurrentLine(r).variant>>
                      IN plan[r][a].quantity
                           > quantity[k] - quantity_allocated[k] - ReservedNow(k))
          /\ (/\ InLoop(r) /\ StepOf(r)
              /\ is_preorder_active(CurrentLine(r).variant))
             => LET k == <<"preorder", CurrentLine(r).variant,
                           channel_of(target[r])>>
                IN FailsNow(r) <=>
                      CurrentLine(r).quantity
                        > Max0(preorder_threshold[k] - preorder_allocated[k]
                               - ReservedNow(k))]_vars

\* reservations are enabled and one unit of V is reserved in A: the line was
\* refused with one unit less available than is on hand and not allocated,
\* and it asked for no more than that
ReservationsReduceAvailabilityWitness ==
    \E r \in Requests :
        /\ reservation_enabled
        /\ reserved[<<"A", "V">>] = 1
        /\ result[r].kind = "InsufficientStock"
        /\ result[r].items[1].variant = "V"
        /\ result[r].items[1].available
             = SumOver([k \in StockKeys |->
                          IF k[2] = "V"
                          THEN quantity[k] - quantity_allocated[k] ELSE 0],
                       StockKeys) - 1
        /\ result[r].items[1].requested = result[r].items[1].available + 1

\* C14: a preorder-active line is allocated against the preorder counter
\* of its (variant, channel) only: every counter stays within its capacity
\* less the reservations counted under the site setting; a step that raises
\* a counter is the step of a request at a preorder-active line, raises the
\* counter of that variant in the order's channel by the line's quantity
\* and no other, and changes no stock row; and a preorder line that is
\* refused is refused through InsufficientStock on "lines", naming the
\* variant.
PreorderPoolOnly ==
    /\ [](\A k \in PreorderKeys :
            preorder_allocated[k] + ReservedNow(k) <= preorder_threshold[k])
    /\ [][/\ preorder_allocated' # preorder_allocated =>
               /\ UNCHANGED quantity_allocated
               /\ \E r \in Requests :
                     /\ InLoop(r) /\ StepOf(r)
                     /\ is_preorder_active(CurrentLine(r).variant)
                     /\ LET k == <<"preorder", CurrentLine(r).variant,
                                   channel_of(target[r])>>
                        IN preorder_allocated' =
                             [preorder_allocated EXCEPT ![k] =
                                 @ + CurrentLine(r).quantity]
          /\ \A r \in Requests :
               (/\ InLoop(r) /\ StepOf(r)
                /\ is_preorder_active(CurrentLine(r).variant))
               => /\ UNCHANGED quantity_allocated
                  /\ result'[r].kind \in {"none", "InsufficientStock"}
                  /\ FailsNow(r) =>
                        /\ result'[r].field = "lines"
                        /\ Len(result'[r].items) = 1
                        /\ result'[r].items[1].code = "insufficient_stock"
                        /\ result'[r].items[1].variant = CurrentLine(r).variant
                        /\ UNCHANGED preorder_allocated]_vars

\* two requests met at the preorder pool of P in channel ch1: one took the
\* whole capacity, the other was refused with nothing available; no stock
\* row moved
PreorderPoolOnlyWitness ==
    \E r, q \in Requests :
        /\ target[r] = "o1" /\ target[q] = "o1"
        /\ lines["o1"][1].variant = "P"
        /\ committed[r][1] = <<[warehouse |-> "preorder",
                                quantity |-> lines["o1"][1].quantity]>>
        /\ preorder_allocated[<<"preorder", "P", "ch1">>]
             = preorder_threshold[<<"preorder", "P", "ch1">>]
        /\ preorder_allocated[<<"preorder", "P", "ch2">>] = 0
        /\ result[q].kind = "InsufficientStock"
        /\ result[q].field = "lines"
        /\ result[q].items[1].variant = "P"
        /\ result[q].items[1].available = 0
        /\ \A k \in StockKeys : quantity_allocated[k] = InitiallyAllocated(k)

\* the step is the save of request r (lines 72-85 went through)
SavesNow(r) == pc[r] = "loaded" /\ pc'[r] = "lines"

\* C15: shipping normalization at the save: for an order that requires no
\* shipping the shipping method name is cleared, the shipping price is zero
\* in the order's currency, and a shipping address, if there is one, is
\* deleted and the order's reference cleared (no other address is deleted);
\* for an order that requires shipping the method, the price, the address
\* and the address rows are left as they were.
ShippingNormalized ==
    [][\A r \in Requests :
          SavesNow(r) =>
             LET o == target[r]
             IN IF ~shipping_required[o]
                THEN /\ order'[o].shipping_method_name = NoName
                     /\ order'[o].shipping_price =
                           [amount |-> 0, currency |-> order[o].currency]
                     /\ order'[o].shipping_address = NoAddress
                     /\ addresses' = addresses \ {order[o].shipping_address}
                ELSE /\ order'[o].shipping_method_name
                           = order[o].shipping_method_name
                     /\ order'[o].shipping_price = order[o].shipping_price
                     /\ order'[o].shipping_address = order[o].shipping_address
                     /\ addresses' = addresses]_vars

\* an order in EUR that requires no shipping and had a method, a price and
\* an address was saved: the three are cleared, its address row is gone and
\* the other order's address row is still there
ShippingNormalizedWitness ==
    \E r \in Requests :
        /\ Saved(r)
        /\ ~shipping_required[target[r]]
        /\ obj[r].currency = "EUR"
        /\ order[target[r]].shipping_method_name = NoName
        /\ order[target[r]].shipping_price = [amount |-> 0, currency |-> "EUR"]
        /\ order[target[r]].shipping_address = NoAddress
        /\ \E o \in Orders \ {target[r]} :
              /\ order[o].shipping_method_name = "standard"
              /\ order[o].shipping_address = <<"address", o>>
              /\ addresses = {<<"address", o>>}

\* C19: customer identity at the save, from the order as the request loaded
\* it: with a user, the email becomes that user's email and the user stays;
\* without a user but with an email, the user becomes the account with that
\* email, or none when there is no such account, and the email stays; with
\* neither, both stay empty. In every case a saved order that has a user has
\* that user's email.
CustomerResolved ==
    [][\A r \in Requests :
          SavesNow(r) =>
             LET b == obj[r]
                 a == order'[target[r]]
             IN /\ IF b.user # NoUser
                   THEN /\ a.user = b.user
                        /\ \E u \in Accounts :
                              u.id = b.user /\ a.user_email = u.email
                   ELSE IF b.user_email # NoEmail
                   THEN /\ a.user_email = b.user_email
                        /\ \/ \E u \in Accounts :
                                 u.email = b.user_email /\ a.user = u.id
                           \/ /\ a.user = NoUser
                              /\ \A u \in Accounts : u.email # b.user_email
                   ELSE a.user = NoUser /\ a.user_email = NoEmail
                /\ a.user # NoUser =>
                      \E u \in Accounts :
                         u.id = a.user /\ u.email = a.user_email]_vars

\* an order without a user whose email belongs to no account was saved: it
\* still has no user and keeps its email
CustomerResolvedWitness ==
    \E r \in Requests :
        /\ Saved(r)
        /\ order[target[r]].status = UNFULFILLED
        /\ order[target[r]].user = NoUser
        /\ order[target[r]].user_email = "e3"
        /\ order[target[r]].search_document = <<"e3", NoUser>>

\* what a request holds of its own
Local(r) == <<pc[r], target[r], obj[r], idx[r], plan[r], committed[r],
              order_lines_info[r], result[r]>>

\* the rows the allocators write
Ledger == <<quantity_allocated, preorder_allocated>>

\* C16: step ordering of a completion. A step that ends in a validation
\* failure (not a draft, or the draft is invalid) changes no order, address,
\* stock row, preorder counter or event. The order rows change only at the
\* save, after both checks, and the save leaves the order Unfulfilled. The
\* ledger changes only in the step of a request that is past its save, whose
\* order is stored as Unfulfilled, and that step allocates the one line the
\* request is at and moves to the next; the lines before the current one are
\* the only ones that can have an allocation. An event is added only by a
\* request that is through all its lines, in a step that changes nothing in
\* the ledger, and a request that is done never moves again.
StepsInOrder ==
    /\ [][/\ \A r \in Requests :
               (result[r].kind = "none"
                /\ result'[r].kind \in {"InvalidState", "DraftInvalid"})
               => UNCHANGED <<order, addresses, quantity, Ledger, reserved,
                              events, committed>>
          /\ order' # order =>
               \E r \in Requests :
                  /\ SavesNow(r)
                  /\ order[target[r]].status = DRAFT \/ obj[r].status = DRAFT
                  /\ order' = [order EXCEPT ![target[r]] = order'[target[r]]]
                  /\ order'[target[r]].status = UNFULFILLED
                  /\ UNCHANGED <<Ledger, events>>
          /\ Ledger' # Ledger =>
               \E r \in Requests :
                  /\ pc[r] \in {"lines", "planned"}
                  /\ order[target[r]].status = UNFULFILLED
                  /\ idx'[r] = idx[r] + 1
                  /\ committed' = [committed EXCEPT ![r][idx[r]] =
                                      committed'[r][idx[r]]]
                  /\ committed[r][idx[r]] = <<>>
                  /\ UNCHANGED <<order, addresses, events>>
          /\ events' # events =>
               \E r \in Requests :
                  /\ pc[r] = "lines" /\ pc'[r] = "done"
                  /\ idx[r] > Len(lines[target[r]])
                  /\ events' = Append(events, events'[Len(events')])
                  /\ UNCHANGED <<order, addresses, Ledger>>
          /\ \A r \in Requests : pc[r] = "done" => Local(r)' = Local(r)]_vars
    /\ [](\A r \in Requests : \A a \in 1..MaxLines :
            committed[r][a] # <<>> => a < idx[r])
    /\ [](\A r \in Requests :
            result[r].kind \in {"InvalidState", "DraftInvalid"} =>
               \A a \in 1..MaxLines : committed[r][a] = <<>>)

\* one request was stopped by the draft validation and left its order a
\* draft with its address; the other completed its order and emitted the
\* event
StepsInOrderWitness ==
    \E r, q \in Requests :
        /\ result[r] = DraftInvalid
        /\ order[target[r]].status = DRAFT
        /\ order[target[r]].shipping_address \in addresses
        /\ target[q] # target[r]
        /\ result[q].kind = "Success"
        /\ order[target[q]].status = UNFULFILLED
        /\ committed[q][1] # <<>>
        /\ Len(events) = 1

\* some pair of the plan of request r no longer fits its stock row
PlanInfeasible(r) ==
    \E a \in DOMAIN plan[r] :
       LET k == <<plan[r][a].warehouse, CurrentLine(r).variant>>
       IN plan[r][a].quantity
            > quantity[k] - quantity_allocated[k] - ReservedNow(k)

\* C17: when the plan of a line is no longer feasible at the time it is
\* applied (a concurrent completion or checkout took the stock in between),
\* the apply step changes no stock row or preorder counter and records no
\* allocation, the request ends with the same failure as a shortage found
\* when planning (InsufficientStock on "lines", one item naming the variant
\* and the requested quantity), and the line is not tried again: the request
\* is done and never moves again.
StalePlanAborts ==
    [][\A r \in Requests :
          /\ (pc[r] = "planned" /\ StepOf(r) /\ PlanInfeasible(r))
             => /\ UNCHANGED <<Ledger, events>>
                /\ committed'[r] = committed[r]
                /\ idx'[r] = idx[r]
                /\ pc'[r] = "done"
                /\ result'[r].kind = "InsufficientStock"
                /\ result'[r].field = "lines"
                /\ Len(result'[r].items) = 1
                /\ result'[r].items[1].code = "insufficient_stock"
                /\ result'[r].items[1].variant = CurrentLine(r).variant
                /\ result'[r].items[1].requested = CurrentLine(r).quantity
          /\ (pc[r] = "done" /\ result[r].kind = "InsufficientStock")
             => Local(r)' = Local(r)]_vars

\* a request was refused although the quantity available over the
\* warehouses covers its line: its plan was made and then overtaken; nothing
\* of the line is allocated
StalePlanAbortsWitness ==
    \E r \in Requests :
        /\ result[r].kind = "InsufficientStock"
        /\ result[r].items[1].available >= result[r].items[1].requested
        /\ committed[r][idx[r]] = <<>>
        /\ plan[r] = <<>>

\* what the requests completing order o have allocated for its line a
AllocatedFor(o, a) ==
    SumOver([r \in Requests |->
               IF target[r] = o THEN SumPlan(committed[r][a]) ELSE 0],
            Requests)

\* C18: two concurrent completion attempts on the same draft order never
\* both allocate for it: for every line of an order the quantity allocated
\* by all attempts together is at most the line's quantity, and at most one
\* completion event is emitted for an order.
SameOrderAllocatedOnce ==
    \A o \in Orders :
        /\ \A a \in DOMAIN lines[o] : AllocatedFor(o, a) <= lines[o][a].quantity
        /\ Cardinality({e \in DOMAIN events : events[e].order = o}) <= 1

====
